---- MODULE Spec2Model ----
(***************************************************************************)
(* A model of lib/Payload/Payload.cpp: the path-keyed file store           *)
(* (Payload::getFile, Payload::orderedFileNames), the manifest             *)
(* (ZipPayload::addManifest), the plain writers (ZipPayload::writePlain)   *)
(* and the archive writer (ZipPayload::writeZip, setFilePermissions).      *)
(*                                                                         *)
(* A std::string is a sequence of one-character strings; Ord gives the     *)
(* byte value of a character.  A 32-bit word is the set of the positions   *)
(* (0..31) of its one-bits, so that &, | and ^ are exact on all 32 bits.   *)
(***************************************************************************)
EXTENDS Integers, Sequences, FiniteSets, TLC

\* ------------------------------------------------------------------------
\* Strings
\* ------------------------------------------------------------------------

\* The byte value of a character (ASCII).
Ord(c) ==
  CASE c = "\n" -> 10 [] c = "\"" -> 34 [] c = "," -> 44 [] c = "-" -> 45
    [] c = "." -> 46 [] c = "/" -> 47 [] c = "0" -> 48 [] c = "1" -> 49
    [] c = ":" -> 58 [] c = "\\" -> 92 [] c = "_" -> 95 [] c = "a" -> 97
    [] c = "b" -> 98 [] c = "c" -> 99 [] c = "e" -> 101 [] c = "f" -> 102
    [] c = "h" -> 104 [] c = "i" -> 105 [] c = "j" -> 106 [] c = "m" -> 109
    [] c = "n" -> 110 [] c = "o" -> 111 [] c = "p" -> 112 [] c = "r" -> 114
    [] c = "s" -> 115 [] c = "t" -> 116 [] c = "v" -> 118 [] c = "x" -> 120
    [] c = "{" -> 123 [] c = "}" -> 125

\* std::string::compare: -1, 0 or 1 by the first differing byte, a proper
\* prefix being smaller.
RECURSIVE StrCompareFrom(_, _, _)
StrCompareFrom(s, t, i) ==
  IF i > Len(s) /\ i > Len(t) THEN 0
  ELSE IF i > Len(s) THEN -1
  ELSE IF i > Len(t) THEN 1
  ELSE IF Ord(s[i]) < Ord(t[i]) THEN -1
  ELSE IF Ord(s[i]) > Ord(t[i]) THEN 1
  ELSE StrCompareFrom(s, t, i + 1)

StrCompare(s, t) == StrCompareFrom(s, t, 1)

StrLess(s, t) == StrCompare(s, t) < 0

\* ------------------------------------------------------------------------
\* std::filesystem::path (POSIX): elements, comparison, extension
\* ------------------------------------------------------------------------

\* path::has_root_directory: the string starts with a separator.
HasRootDirectory(s) == Len(s) > 0 /\ s[1] = "/"

RECURSIVE StripLeadingSlashes(_)
StripLeadingSlashes(s) ==
  IF Len(s) > 0 /\ s[1] = "/" THEN StripLeadingSlashes(Tail(s)) ELSE s

\* The elements of a relative path r (r does not start with a separator),
\* as path iteration yields them: runs of separators separate two elements,
\* and a trailing separator yields a last, empty element.
RECURSIVE SplitFrom(_, _, _)
SplitFrom(r, i, cur) ==
  IF i > Len(r) THEN <<cur>>
  ELSE IF r[i] = "/"
    THEN IF cur = <<>> THEN SplitFrom(r, i + 1, <<>>)
         ELSE <<cur>> \o SplitFrom(r, i + 1, <<>>)
  ELSE SplitFrom(r, i + 1, Append(cur, r[i]))

\* path::relative_path(), element by element.
PathElems(s) ==
  LET r == StripLeadingSlashes(s)
  IN  IF r = <<>> THEN <<>> ELSE SplitFrom(r, 1, <<>>)

RECURSIVE ElemsCompareFrom(_, _, _)
ElemsCompareFrom(a, b, i) ==
  IF i > Len(a) /\ i > Len(b) THEN 0
  ELSE IF i > Len(a) THEN -1
  ELSE IF i > Len(b) THEN 1
  ELSE LET c == StrCompare(a[i], b[i])
       IN  IF c # 0 THEN c ELSE ElemsCompareFrom(a, b, i + 1)

\* path::compare: the root directory first (a path without one is smaller),
\* then the elements of the relative path, each compared as a string.
PathCompare(p, q) ==
  IF p = q THEN 0
  ELSE IF ~HasRootDirectory(p) /\ HasRootDirectory(q) THEN -1
  ELSE IF HasRootDirectory(p) /\ ~HasRootDirectory(q) THEN 1
  ELSE ElemsCompareFrom(PathElems(p), PathElems(q), 1)

\* operator< of std::filesystem::path, the order std::sort is given.
PathLess(p, q) == PathCompare(p, q) < 0

\* path::filename(): the last element ("" for an empty path or a root).
Filename(s) ==
  LET e == PathElems(s) IN IF e = <<>> THEN <<>> ELSE e[Len(e)]

\* The position of the last "." in f, 0 when there is none.
RECURSIVE LastDot(_, _)
LastDot(f, i) ==
  IF i = 0 THEN 0 ELSE IF f[i] = "." THEN i ELSE LastDot(f, i - 1)

\* path::extension(): from the rightmost period of the filename to its end;
\* empty for "." and "..", when there is no period, and when the only
\* period is the first character.
Extension(s) ==
  LET f == Filename(s)
      p == LastDot(f, Len(f))
  IN  IF f = <<".">> \/ f = <<".", ".">> THEN <<>>
      ELSE IF p <= 1 THEN <<>>
      ELSE SubSeq(f, p, Len(f))

HasExtension(s) == Extension(s) # <<>>

\* ------------------------------------------------------------------------
\* std::sort of a vector of paths
\* ------------------------------------------------------------------------

\* x put into the sorted sequence s before the first element greater than it.
RECURSIVE InsertByPath(_, _)
InsertByPath(s, x) ==
  IF s = <<>> THEN <<x>>
  ELSE IF PathLess(x, s[Len(s)])
    THEN Append(InsertByPath(SubSeq(s, 1, Len(s) - 1), x), s[Len(s)])
  ELSE Append(s, x)

\* std::sort(ret.begin(), ret.end()) on a short vector (an insertion sort by
\* operator< of path): elements that compare equal keep the order the input
\* had them in.
RECURSIVE SortPaths(_)
SortPaths(v) ==
  IF v = <<>> THEN <<>>
  ELSE InsertByPath(SortPaths(SubSeq(v, 1, Len(v) - 1)), v[Len(v)])

\* A variant of orderedFileNames that removes, after sorting, every path
\* equivalent to the one before it (std::unique on the sorted paths).
RECURSIVE DropEquivalent(_, _)
DropEquivalent(s, i) ==
  IF i > Len(s) THEN <<>>
  ELSE (IF i > 1 /\ PathCompare(s[i - 1], s[i]) = 0 THEN <<>> ELSE <<s[i]>>)
       \o DropEquivalent(s, i + 1)
OrderedFileNamesUnique(iter) == DropEquivalent(SortPaths(iter), 1)

\* The vector orderedFileNames returns for a map that iterates in the order
\* iter.
OrderedFileNamesOf(iter) == SortPaths(iter)

\* ------------------------------------------------------------------------
\* nlohmann::json: the compact dump of an object of strings
\* ------------------------------------------------------------------------

\* The escaping dump() applies inside a string.
RECURSIVE JsonEscape(_)
JsonEscape(s) ==
  IF s = <<>> THEN <<>>
  ELSE LET c == Head(s)
           e == IF c = "\"" THEN <<"\\", "\"">>
                ELSE IF c = "\\" THEN <<"\\", "\\">>
                ELSE IF c = "\n" THEN <<"\\", "n">>
                ELSE <<c>>
       IN  e \o JsonEscape(Tail(s))

JsonString(s) == <<"\"">> \o JsonEscape(s) \o <<"\"">>

\* The keys of an object in the order of its std::map: by string comparison.
RECURSIVE SortedKeys(_)
SortedKeys(S) ==
  IF S = {} THEN <<>>
  ELSE LET m == CHOOSE x \in S : \A y \in S : ~StrLess(y, x)
       IN  <<m>> \o SortedKeys(S \ {m})

RECURSIVE JsonMembers(_, _, _)
JsonMembers(obj, ks, i) ==
  IF i > Len(ks) THEN <<>>
  ELSE (IF i > 1 THEN <<",">> ELSE <<>>)
       \o JsonString(ks[i]) \o <<":">> \o JsonString(obj[ks[i]])
       \o JsonMembers(obj, ks, i + 1)

\* json::dump() with no indent: {"k":"v",...}, members in key order.
JsonDump(obj) ==
  <<"{">> \o JsonMembers(obj, SortedKeys(DOMAIN obj), 1) \o <<"}">>

\* The version string of the build (Config.h).
QSSC_VERSION == <<"0", ".", "1">>

\* The fixed, un-prefixed key of the manifest.
manifest_fname ==
  <<"m", "a", "n", "i", "f", "e", "s", "t", "/",
    "m", "a", "n", "i", "f", "e", "s", "t", ".", "j", "s", "o", "n">>

\* The json object addManifest builds: operator[] on the two keys.
ManifestObject(pfx) ==
  (<<"v", "e", "r", "s", "i", "o", "n">> :> QSSC_VERSION)
  @@ (<<"c", "o", "n", "t", "e", "n", "t", "s", "_", "p", "a", "t", "h">> :> pfx)

\* A variant of the manifest content without the newline after the dump.
ManifestContentNoNewline(pfx) == JsonDump(ManifestObject(pfx))

\* manifest.dump() + "\n"
ManifestContent(pfx) == JsonDump(ManifestObject(pfx)) \o <<"\n">>

\* ------------------------------------------------------------------------
\* External attributes (32-bit words as sets of bit positions)
\* ------------------------------------------------------------------------

S_IWGRP == 16
S_IWOTH == 2
S_IXUSR == 64
ZIP_OPSYS_UNIX == 3
ZIP_OPSYS_DOS == 0

\* The one-bits of a small non-negative int.
BitsOf(n) == {i \in 0 .. 15 : (n \div (2 ^ i)) % 2 = 1}

\* w << k on 32 bits.
ShiftLeft(w, k) == {b + k : b \in w} \cap (0 .. 31)

UINT32_MAX == 0 .. 31

BitXor(a, b) == (a \ b) \cup (b \ a)
BitAnd(a, b) == a \cap b
BitOr(a, b) == a \cup b

\* The extension test of setFilePermissions.
IsShellScript(fName) ==
  HasExtension(fName) /\ Extension(fName) = <<".", "s", "h">>

\* A variant of setFilePermissions whose masks and execute bit lack the
\* shift by 16.
SetFilePermissionsNoShift(fName, opsys, attributes) ==
  IF opsys = ZIP_OPSYS_UNIX
  THEN LET mask0 == UINT32_MAX
           mask1 == BitXor(mask0, BitsOf(S_IWGRP))
           mask2 == BitXor(mask1, BitsOf(S_IWOTH))
           masked == BitAnd(attributes, mask2)
       IN  IF IsShellScript(fName)
           THEN BitOr(masked, BitsOf(S_IXUSR))
           ELSE masked
  ELSE attributes

\* A variant of setFilePermissions without the test of the origin tag.
SetFilePermissionsAnyOrigin(fName, opsys, attributes) ==
  LET mask0 == UINT32_MAX
      mask1 == BitXor(mask0, ShiftLeft(BitsOf(S_IWGRP), 16))
      mask2 == BitXor(mask1, ShiftLeft(BitsOf(S_IWOTH), 16))
      masked == BitAnd(attributes, mask2)
  IN  IF IsShellScript(fName)
      THEN BitOr(masked, ShiftLeft(BitsOf(S_IXUSR), 16))
      ELSE masked

\* setFilePermissions: the attribute word written back for an entry named
\* fName whose origin tag is opsys and whose word is attributes; a word is
\* written back (and changes) only for a UNIX-tagged entry.
SetFilePermissions(fName, opsys, attributes) ==
  IF opsys = ZIP_OPSYS_UNIX
  THEN LET mask0 == UINT32_MAX
           mask1 == BitXor(mask0, ShiftLeft(BitsOf(S_IWGRP), 16))
           mask2 == BitXor(mask1, ShiftLeft(BitsOf(S_IWOTH), 16))
           masked == BitAnd(attributes, mask2)
       IN  IF IsShellScript(fName)
           THEN BitOr(masked, ShiftLeft(BitsOf(S_IXUSR), 16))
           ELSE masked
  ELSE attributes

\* ------------------------------------------------------------------------
\* The payload: state
\* ------------------------------------------------------------------------

\* Bounds of the exploration.
MaxCalls == 2     \* calls of the public functions, all threads together
MaxFail == 1      \* failures of the codec or the file system in one call

Threads == {"t1", "t2"}

\* The prefixes a payload is constructed with, the names producers ask for,
\* and what they write into a slot.
Prefixes == { <<"o", "/">>, <<"m", "a", "n", "i", "f", "e", "s", "t", "/">> }
Names ==
  { <<"a", ".", "s", "h">>,
    <<"m", "a", "n", "i", "f", "e", "s", "t", ".", "j", "s", "o", "n">>,
    <<"/", "m", "a", "n", "i", "f", "e", "s", "t", ".", "j", "s", "o", "n">> }
WriteVals == { <<"x">> }

\* What an unsynchronized read yields when it races with a writer, and what
\* is read through a pointer whose string was reassigned.
Garbage == <<"indeterminate">>

\* The null pointer (a key is never empty: the prefixes are not).
NullHandle == <<>>

VARIABLES
  prefix,   \* Payload::prefix
  files,    \* Payload::files: key -> content
  order,    \* the order in which files iterates
  mtx,      \* Payload::_mtx: the thread holding it, or "free"
  pc,       \* where each thread is
  loc,      \* the locals of each thread's call
  used,     \* calls made so far, against MaxCalls
  probe     \* the arguments and result of a function applied on its own

vars == <<prefix, files, order, mtx, pc, loc, used, probe>>

\* The locals of a call that has not started.
NoLocals ==
  [ op |-> "none",          \* the public function called
    arg |-> <<>>,           \* fName of getFile
    handle |-> NullHandle,  \* the std::string* getFile returned
    names |-> <<>>,         \* orderedNames (writePlain(dirName): the keys
                            \* in the order the loop over files meets them)
    idx |-> 0,              \* position of the loop over orderedNames
    archive |-> <<>>,       \* the entries added to new_archive, in order
    failed |-> {},          \* names whose wrap or add failed
    stale |-> {},           \* wrapped names whose string changed since
    fails |-> 0,            \* failures met in this call
    srcRefs |-> 0,          \* references held on new_archive_src
    za |-> "none",          \* new_archive: none, open, closed, failed
    fileSrcs |-> 0,         \* file_src sources created and owned by nobody
    outbuffer |-> "none",   \* outbuffer: none, allocated, freed
    reading |-> FALSE,      \* new_archive_src is open for reading
    sink |-> <<>>,          \* what was written to the stream, in order
    flushed |-> FALSE,      \* stream.flush() was called
    dir |-> <<>>,           \* the files written under dirName
    thrown |-> FALSE,       \* the call ended by an exception
    log |-> <<>>,           \* the stages of writeZip reached, in order
    before |-> <<>>,        \* what the manifest key held when addManifest began
    result |-> "void" ]     \* what the call returns to its caller: writeZip,
                            \* write and writePlain are void functions

Keys == DOMAIN files

\* The sequence s with x put at position i.
InsertAt(s, i, x) == SubSeq(s, 1, i - 1) \o <<x>> \o SubSeq(s, i, Len(s))

\* The iteration orders of the map after key k was added to one that
\* iterated in the order ord: the place of a new element is unspecified.
Insertions(ord, k) == { InsertAt(ord, i, k) : i \in 1 .. Len(ord) + 1 }

\* A variant of try_emplace that assigns an empty string to the slot whether
\* or not the key is there (files[key] = "").
TryEmplaceReset(f, key) == (key :> <<>>) @@ f

\* files.try_emplace(key): a new, empty slot unless the key is there.
TryEmplace(f, key) == IF key \in DOMAIN f THEN f ELSE f @@ (key :> <<>>)

\* files[key] = value
Assign(f, key, value) == (key :> value) @@ f

Init ==
  /\ prefix \in Prefixes
  /\ files = <<>>
  /\ order = <<>>
  /\ mtx = "free"
  /\ pc = [t \in Threads |-> "idle"]
  /\ loc = [t \in Threads |-> NoLocals]
  /\ used = 0
  /\ probe = [kind |-> "none"]

\* manifest.dump() + "\n" for each prefix a payload may have.
ManifestOf == [pfx \in Prefixes |-> ManifestContent(pfx)]

\* The keys the map of a payload constructed with pfx can get: prefix + fName
\* of getFile, and the key addManifest assigns.
PossibleKeys(pfx) == { pfx \o n : n \in Names } \cup {manifest_fname}

\* The orders in which a map holding some of the keys of K can iterate.
PossibleOrders(K) ==
  { q \in UNION { [1 .. n -> K] : n \in 0 .. Cardinality(K) } :
      \A i, j \in DOMAIN q : i # j => q[i] # q[j] }

\* What orderedFileNames returns for each order in which files can iterate,
\* as an explicit function (f @@ <<>> is f, enumerated).
OrderedFileNamesFor ==
  [ q \in UNION { PossibleOrders(PossibleKeys(pfx)) : pfx \in Prefixes } |->
      OrderedFileNamesOf(q) ] @@ <<>>

\* ------------------------------------------------------------------------
\* Helpers of the actions
\* ------------------------------------------------------------------------

Goto(t, label) == pc' = [pc EXCEPT ![t] = label]

\* Another thread is inside a locked region that restructures the map (an
\* insertion) or reassigns the string of key k, while t reads without _mtx.
SlotRace(t, k) ==
  \E u \in Threads \ {t} :
    \/ pc[u] = "gf_body" /\ (prefix \o loc[u].arg) \notin Keys
    \/ pc[u] = "am_body" /\ (manifest_fname \notin Keys \/ k = manifest_fname)

\* What files[k] read by thread t without _mtx can yield.
UnlockedRead(t, k) ==
  IF SlotRace(t, k) THEN {files[k], Garbage} ELSE {files[k]}

\* The names thread u has wrapped as zero-copy sources (pointers into the
\* strings of the map) that the codec has not read yet.
Wrapped(u) ==
  IF pc[u] \in {"zip_loop", "zip_close"}
  THEN {loc[u].archive[i].name : i \in 1 .. Len(loc[u].archive)}
  ELSE {}

\* The locals of every thread after the string of key k was reassigned by
\* thread t: the pointers other calls hold into it dangle.
AfterStringChange(t, k, l) ==
  [u \in Threads |->
     IF u # t /\ k \in Wrapped(u)
     THEN [l[u] EXCEPT !.stale = @ \cup {k}]
     ELSE l[u]]

\* ------------------------------------------------------------------------
\* Payload::getFile (both overloads) and writes through the handle
\* ------------------------------------------------------------------------

\* getFile(const std::string&): takes _mtx.
GetFileString(t, n) ==
  /\ pc[t] = "idle" /\ mtx = "free" /\ used < MaxCalls
  /\ mtx' = t
  /\ loc' = [loc EXCEPT ![t] = [NoLocals EXCEPT !.op = "getFile", !.arg = n]]
  /\ used' = used + 1
  /\ Goto(t, "gf_body")
  /\ UNCHANGED <<prefix, files, order, probe>>

\* getFile(const char*): takes _mtx.
GetFileCString(t, n) ==
  /\ pc[t] = "idle" /\ mtx = "free" /\ used < MaxCalls
  /\ mtx' = t
  /\ loc' = [loc EXCEPT ![t] = [NoLocals EXCEPT !.op = "getFile", !.arg = n]]
  /\ used' = used + 1
  /\ Goto(t, "gf_body")
  /\ UNCHANGED <<prefix, files, order, probe>>

\* The body of either overload: key = prefix + fName; try_emplace; return
\* &files[key]; the lock_guard releases _mtx.  The caller then holds the
\* pointer.
GetFileBody(t) ==
  LET key == prefix \o loc[t].arg
  IN  /\ pc[t] = "gf_body"
      /\ files' = TryEmplace(files, key)
      /\ order' \in (IF key \in Keys THEN {order} ELSE Insertions(order, key))
      /\ loc' = [loc EXCEPT ![t].handle = key]
      /\ mtx' = "free"
      /\ Goto(t, "gf_held")
      /\ UNCHANGED <<prefix, used, probe>>

\* A producer assigns through the pointer getFile returned (no lock).
HandleWrite(t, v) ==
  /\ pc[t] = "gf_held"
  /\ files' = Assign(files, loc[t].handle, v)
  /\ loc' = AfterStringChange(t, loc[t].handle, loc)
  /\ UNCHANGED <<prefix, order, mtx, pc, used, probe>>

\* The producer is done with the pointer.
DropHandle(t) ==
  /\ pc[t] = "gf_held"
  /\ loc' = [loc EXCEPT ![t] = NoLocals]
  /\ Goto(t, "idle")
  /\ UNCHANGED <<prefix, files, order, mtx, used, probe>>

\* ------------------------------------------------------------------------
\* Payload::orderedFileNames
\* ------------------------------------------------------------------------

\* A call of orderedFileNames by a client: takes _mtx.
OrderedFileNamesCall(t) ==
  /\ pc[t] = "idle" /\ mtx = "free" /\ used < MaxCalls
  /\ mtx' = t
  /\ loc' = [loc EXCEPT ![t] =
               [NoLocals EXCEPT !.op = "orderedFileNames"]]
  /\ used' = used + 1
  /\ Goto(t, "ofn_body")
  /\ UNCHANGED <<prefix, files, order, probe>>

\* The call of orderedFileNames inside writeZip: takes _mtx.
OrderedFileNamesInner(t) ==
  /\ pc[t] = "ofn_lock" /\ mtx = "free"
  /\ mtx' = t
  /\ Goto(t, "ofn_body")
  /\ UNCHANGED <<prefix, files, order, loc, used, probe>>

\* The body: copy the keys, sort, return; the lock_guard releases _mtx.
OrderedFileNamesBody(t) ==
  /\ pc[t] = "ofn_body"
  /\ loc' = [loc EXCEPT ![t].names = OrderedFileNamesFor[order],
                        ![t].idx = 1]
  /\ mtx' = "free"
  /\ Goto(t, CASE loc[t].op = "writePlainStream" -> "ps_head"
               [] loc[t].op = "writeZip" -> "zip_loop"
               [] OTHER -> "ret")
  /\ UNCHANGED <<prefix, files, order, used, probe>>

\* ------------------------------------------------------------------------
\* ZipPayload::addManifest
\* ------------------------------------------------------------------------

\* addManifest under _mtx: files["manifest/manifest.json"] =
\* manifest.dump() + "\n"; the lock_guard releases _mtx.
AddManifestBody(t) ==
  /\ pc[t] = "am_body"
  /\ files' = Assign(files, manifest_fname, ManifestOf[prefix])
  /\ order' \in (IF manifest_fname \in Keys THEN {order}
                 ELSE Insertions(order, manifest_fname))
  /\ loc' = [AfterStringChange(t, manifest_fname, loc)
               EXCEPT ![t].log = Append(@, "manifest"),
                      ![t].before = IF manifest_fname \in Keys
                                    THEN files[manifest_fname] ELSE <<>>]
  /\ mtx' = "free"
  /\ Goto(t, "zip_init")
  /\ UNCHANGED <<prefix, used, probe>>

\* ------------------------------------------------------------------------
\* ZipPayload::writePlain(const std::string &dirName)
\* ------------------------------------------------------------------------

\* writePlain(dirName) takes _mtx for the whole call.
WritePlainDirCall(t) ==
  /\ pc[t] = "idle" /\ mtx = "free" /\ used < MaxCalls
  /\ mtx' = t
  /\ loc' = [loc EXCEPT ![t] =
               [NoLocals EXCEPT !.op = "writePlainDir"]]
  /\ used' = used + 1
  /\ Goto(t, "pd_body")
  /\ UNCHANGED <<prefix, files, order, probe>>

\* The file system under dirName after the loop wrote the files ord[i..n]:
\* a file is named by the elements of dirName / key; a key in noOpen is
\* skipped (the stream failed to open).
RECURSIVE WriteFiles(_, _, _, _, _)
WriteFiles(ord, i, n, noOpen, d) ==
  IF i > n THEN d
  ELSE WriteFiles(ord, i + 1, n, noOpen,
                  IF ord[i] \in noOpen THEN d
                  ELSE Assign(d, PathElems(ord[i]), files[ord[i]]))

\* A variant of WritePlainDirBody that locks and unlocks _mtx by hand: the
\* exception of create_directories leaves it locked.
WritePlainDirBodyManualUnlock(t) ==
  /\ pc[t] = "pd_body"
  /\ \/ /\ \E noOpen \in SUBSET Keys :
             /\ Cardinality(noOpen) <= MaxFail
             /\ loc' = [loc EXCEPT
                          ![t].dir = WriteFiles(order, 1, Len(order), noOpen, <<>>),
                          ![t].names = order,
                          ![t].failed = noOpen,
                          ![t].fails = Cardinality(noOpen)]
        /\ mtx' = "free"
     \/ /\ \E j \in 1 .. Len(order) :
             /\ MaxFail > 0
             /\ loc' = [loc EXCEPT
                          ![t].dir = WriteFiles(order, 1, j - 1, {}, <<>>),
                          ![t].names = order,
                          ![t].thrown = TRUE,
                          ![t].failed = {order[j]},
                          ![t].fails = 1]
        /\ mtx' = mtx
  /\ Goto(t, "ret")
  /\ UNCHANGED <<prefix, files, order, used, probe>>

\* The loop over files, in the order the map iterates.  For each file
\* create_directories may throw (the exception leaves writePlain and the
\* lock_guard releases _mtx) and the stream may fail to open (the file is
\* reported and skipped).
WritePlainDirBody(t) ==
  /\ pc[t] = "pd_body"
  /\ \/ \E noOpen \in SUBSET Keys :
          /\ Cardinality(noOpen) <= MaxFail
          /\ loc' = [loc EXCEPT
                       ![t].dir = WriteFiles(order, 1, Len(order), noOpen, <<>>),
                       ![t].names = order,
                       ![t].failed = noOpen,
                       ![t].fails = Cardinality(noOpen)]
     \/ \E j \in 1 .. Len(order) :
          /\ MaxFail > 0
          /\ loc' = [loc EXCEPT
                       ![t].dir = WriteFiles(order, 1, j - 1, {}, <<>>),
                       ![t].names = order,
                       ![t].thrown = TRUE,
                       ![t].failed = {order[j]},
                       ![t].fails = 1]
  /\ mtx' = "free"
  /\ Goto(t, "ret")
  /\ UNCHANGED <<prefix, files, order, used, probe>>

\* ------------------------------------------------------------------------
\* ZipPayload::writePlain(llvm::raw_ostream &stream)
\* ------------------------------------------------------------------------

\* A string literal written to a stream, kept as one token.
Lit(text) == <<text>>

Rule == Lit("------------------------------------------\n")

\* writePlain(stream) begins by calling orderedFileNames, which takes _mtx.
WritePlainStreamCall(t) ==
  /\ pc[t] = "idle" /\ mtx = "free" /\ used < MaxCalls
  /\ mtx' = t
  /\ loc' = [loc EXCEPT ![t] = [NoLocals EXCEPT !.op = "writePlainStream"]]
  /\ used' = used + 1
  /\ Goto(t, "ofn_body")
  /\ UNCHANGED <<prefix, files, order, probe>>

\* One line per name of the list of names.
RECURSIVE NameLines(_, _)
NameLines(names, i) ==
  IF i > Len(names) THEN <<>>
  ELSE <<names[i], Lit("\n")>> \o NameLines(names, i + 1)

\* The banner and the list of names.
PlainStreamHead(t) ==
  /\ pc[t] = "ps_head"
  /\ loc' = [loc EXCEPT
               ![t].sink = <<Rule, Lit("Plaintext payload: "), prefix, Lit("\n"),
                             Rule, Lit("Manifest:\n")>>
                           \o NameLines(loc[t].names, 1) \o <<Rule>>]
  /\ Goto(t, IF loc[t].names = <<>> THEN "ret" ELSE "ps_loop")
  /\ UNCHANGED <<prefix, files, order, mtx, used, probe>>

\* Whether *(s.rbegin()) != '\n' can hold: rbegin() of an empty string
\* points before the buffer, so either answer is possible for it, as for
\* an indeterminate read.
LacksNewline(d) ==
  IF d = <<>> \/ d = Garbage THEN {TRUE, FALSE} ELSE {d[Len(d)] # "\n"}

\* What one iteration of the second loop writes for content d.
FileBlock(fName, d, nl) ==
  <<Lit("File: "), fName, Lit("\n"), d>>
  \o (IF nl THEN <<Lit("\n")>> ELSE <<>>) \o <<Rule>>

\* A variant of PlainStreamFile that looks the content up under the file
\* name of the path (files[fName.filename()]): operator[] adds the key when
\* it is absent.
PlainStreamFileByFilename(t) ==
  LET fName == loc[t].names[loc[t].idx]
      key == Filename(fName)
  IN  /\ pc[t] = "ps_loop"
      /\ files' = TryEmplace(files, key)
      /\ order' \in (IF key \in Keys THEN {order} ELSE Insertions(order, key))
      /\ \E nl \in LacksNewline(files'[key]) :
           loc' = [loc EXCEPT
                     ![t].sink = @ \o FileBlock(fName, files'[key], nl),
                     ![t].idx = @ + 1]
      /\ Goto(t, IF loc[t].idx = Len(loc[t].names) THEN "ret" ELSE "ps_loop")
      /\ UNCHANGED <<prefix, mtx, used, probe>>

\* One iteration of the loop over orderedNames: files[fName] is read
\* without _mtx.
PlainStreamFile(t) ==
  LET fName == loc[t].names[loc[t].idx]
  IN  /\ pc[t] = "ps_loop"
      /\ \E d \in UnlockedRead(t, fName) : \E nl \in LacksNewline(d) :
           loc' = [loc EXCEPT
                     ![t].sink = @ \o FileBlock(fName, d, nl),
                     ![t].idx = @ + 1]
      /\ Goto(t, IF loc[t].idx = Len(loc[t].names) THEN "ret" ELSE "ps_loop")
      /\ UNCHANGED <<prefix, files, order, mtx, used, probe>>

\* ------------------------------------------------------------------------
\* ZipPayload::writeZip(llvm::raw_ostream &stream)
\* ------------------------------------------------------------------------

\* The external attributes the codec gives a new entry: origin UNIX, a
\* regular file with mode 0666 (0100666 << 16).
DefaultAttributes == ShiftLeft(BitsOf(33206), 16)

\* writeZip begins by calling addManifest, which takes _mtx.
WriteZipCall(t) ==
  /\ pc[t] = "idle" /\ mtx = "free" /\ used < MaxCalls
  /\ mtx' = t
  /\ loc' = [loc EXCEPT ![t] = [NoLocals EXCEPT !.op = "writeZip"]]
  /\ used' = used + 1
  /\ Goto(t, "am_body")
  /\ UNCHANGED <<prefix, files, order, probe>>

\* A variant of ZipInit whose branch for a failed zip_open_from_source lacks
\* the return: the function goes on to the loop over the entries.
ZipInitOpenFallsThrough(t) ==
  /\ pc[t] = "zip_init"
  /\ \/ /\ loc[t].fails < MaxFail
        /\ loc' = [loc EXCEPT ![t].fails = @ + 1,
                              ![t].log = Append(@, "create_failed")]
        /\ Goto(t, "ret")
     \/ /\ loc[t].fails < MaxFail
        /\ loc' = [loc EXCEPT ![t].fails = @ + 1,
                              ![t].srcRefs = 1,
                              ![t].log = @ \o <<"create", "keep", "open_failed">>]
        /\ Goto(t, "ofn_lock")
     \/ /\ loc' = [loc EXCEPT ![t].srcRefs = 2,
                              ![t].za = "open",
                              ![t].log = @ \o <<"create", "keep", "open">>]
        /\ Goto(t, "ofn_lock")
  /\ UNCHANGED <<prefix, files, order, mtx, used, probe>>

\* Initialize archive: zip_source_buffer_create, zip_source_keep,
\* zip_open_from_source.  Either of the two fallible calls may fail; the
\* function then returns.
ZipInit(t) ==
  /\ pc[t] = "zip_init"
  /\ \/ /\ loc[t].fails < MaxFail
        /\ loc' = [loc EXCEPT ![t].fails = @ + 1,
                              ![t].log = Append(@, "create_failed")]
        /\ Goto(t, "ret")
     \/ /\ loc[t].fails < MaxFail
        \* create: 1 reference; keep: 2; zip_source_free: 1
        /\ loc' = [loc EXCEPT ![t].fails = @ + 1,
                              ![t].srcRefs = 1,
                              ![t].log = @ \o <<"create", "keep", "open_failed">>]
        /\ Goto(t, "ret")
     \/ /\ loc' = [loc EXCEPT ![t].srcRefs = 2,
                              ![t].za = "open",
                              ![t].log = @ \o <<"create", "keep", "open">>]
        /\ Goto(t, "ofn_lock")
  /\ UNCHANGED <<prefix, files, order, mtx, used, probe>>

\* The entry zip_file_add makes of fName and the wrapped data, after
\* setFilePermissions.
NewEntry(fName, d) ==
  [ name |-> fName,
    data |-> d,
    opsys |-> ZIP_OPSYS_UNIX,
    attributes |-> SetFilePermissions(fName, ZIP_OPSYS_UNIX, DefaultAttributes) ]

\* The archive after the entry was added (ZIP_FL_OVERWRITE: the names of
\* orderedNames are distinct, so nothing is replaced).
AddEntry(archive, fName, d) == Append(archive, NewEntry(fName, d))

\* A variant of ZipEntry that leaves the loop when wrapping or adding an
\* entry fails (break in place of continue).
ZipEntryBreak(t) ==
  LET fName == loc[t].names[loc[t].idx]
      next == IF loc[t].idx = Len(loc[t].names) THEN "zip_close" ELSE "zip_loop"
  IN  /\ pc[t] = "zip_loop"
      /\ \/ /\ loc[t].fails < MaxFail
            /\ loc' = [loc EXCEPT ![t].fails = @ + 1,
                                  ![t].failed = @ \cup {fName}]
            /\ Goto(t, "zip_close")
         \/ /\ loc[t].fails < MaxFail
            /\ loc' = [loc EXCEPT ![t].fails = @ + 1,
                                  ![t].failed = @ \cup {fName},
                                  ![t].fileSrcs = @ + 1]
            /\ Goto(t, "zip_close")
         \/ /\ \E d \in UnlockedRead(t, fName) :
                 loc' = [loc EXCEPT
                           ![t].archive = AddEntry(@, fName, d),
                           ![t].log = Append(@, "add"),
                           ![t].idx = @ + 1]
            /\ Goto(t, next)
      /\ UNCHANGED <<prefix, files, order, mtx, used, probe>>

\* One iteration of the loop over orderedNames: files[fName] is read
\* without _mtx and wrapped (zip_source_buffer_create, which may fail), then
\* added (zip_file_add, which may fail and then leaves file_src to the
\* caller), then its permissions are set.
ZipEntry(t) ==
  LET fName == loc[t].names[loc[t].idx]
      next == IF loc[t].idx = Len(loc[t].names) THEN "zip_close" ELSE "zip_loop"
  IN  /\ pc[t] = "zip_loop"
      /\ \/ /\ loc[t].fails < MaxFail
            /\ loc' = [loc EXCEPT ![t].fails = @ + 1,
                                  ![t].failed = @ \cup {fName},
                                  ![t].idx = @ + 1]
         \/ /\ loc[t].fails < MaxFail
            /\ loc' = [loc EXCEPT ![t].fails = @ + 1,
                                  ![t].failed = @ \cup {fName},
                                  ![t].fileSrcs = @ + 1,
                                  ![t].idx = @ + 1]
         \/ \E d \in UnlockedRead(t, fName) :
              loc' = [loc EXCEPT
                        ![t].archive = AddEntry(@, fName, d),
                        ![t].log = Append(@, "add"),
                        ![t].idx = @ + 1]
      /\ Goto(t, next)
      /\ UNCHANGED <<prefix, files, order, mtx, used, probe>>

\* The archive as zip_close reads it: the data of an entry is read through
\* the pointer wrapped in the loop; where the string was reassigned since,
\* the bytes read are the old ones, the new ones or neither.
ClosedArchives(t) ==
  LET a == loc[t].archive
      st == {i \in 1 .. Len(a) : a[i].name \in loc[t].stale}
  IN  { [i \in 1 .. Len(a) |->
           IF i \in st
           THEN [a[i] EXCEPT !.data =
                   CASE pick[i] = "old" -> a[i].data
                     [] pick[i] = "new" -> files[a[i].name]
                     [] OTHER -> Garbage]
           ELSE a[i]] :
        pick \in [st -> {"old", "new", "neither"}] }

\* A variant of ZipClose whose failure branch lacks the return: the
\* function goes on to read the source back and write it to the stream.
ZipCloseNoReturn(t) ==
  /\ pc[t] = "zip_close"
  /\ \/ /\ loc[t].fails < MaxFail
        /\ loc' = [loc EXCEPT ![t].fails = @ + 1,
                              ![t].za = "failed",
                              ![t].log = Append(@, "close_failed")]
        /\ Goto(t, "zip_copy")
     \/ /\ \E a \in ClosedArchives(t) :
             loc' = [loc EXCEPT ![t].archive = a,
                                ![t].za = "closed",
                                ![t].srcRefs = @ - 1,
                                ![t].log = Append(@, "close")]
        /\ Goto(t, "zip_copy")
  /\ UNCHANGED <<prefix, files, order, mtx, used, probe>>

\* Shutdown archive: zip_close.  On failure writeZip returns; the archive
\* stays open.
ZipClose(t) ==
  /\ pc[t] = "zip_close"
  /\ \/ /\ loc[t].fails < MaxFail
        /\ loc' = [loc EXCEPT ![t].fails = @ + 1,
                              ![t].za = "failed",
                              ![t].log = Append(@, "close_failed")]
        /\ Goto(t, "ret")
     \/ /\ \E a \in ClosedArchives(t) :
             loc' = [loc EXCEPT ![t].archive = a,
                                ![t].za = "closed",
                                ![t].srcRefs = @ - 1,
                                ![t].log = Append(@, "close")]
        /\ Goto(t, "zip_copy")
  /\ UNCHANGED <<prefix, files, order, mtx, used, probe>>

\* A variant of ZipReadBack that returns after stream.flush() without
\* free(outbuffer).
ZipReadBackNoFree(t) ==
  /\ pc[t] = "zip_copy"
  /\ \/ /\ loc[t].fails < MaxFail
        /\ loc' = [loc EXCEPT ![t].fails = @ + 1,
                              ![t].reading = FALSE,
                              ![t].log = @ \o <<"reopen", "malloc_failed",
                                                "reclose">>]
     \/ loc' = [loc EXCEPT ![t].reading = FALSE,
                           ![t].outbuffer = "allocated",
                           ![t].sink = Append(@, loc[t].archive),
                           ![t].flushed = TRUE,
                           ![t].log = @ \o <<"reopen", "malloc", "read",
                                             "reclose", "write", "flush">>]
  /\ Goto(t, "ret")
  /\ UNCHANGED <<prefix, files, order, mtx, used, probe>>

\* Reopen for copying: zip_source_open, seek, tell, malloc (which may
\* fail), seek, read, zip_source_close, stream.write, stream.flush, free.
ZipReadBack(t) ==
  /\ pc[t] = "zip_copy"
  /\ \/ /\ loc[t].fails < MaxFail
        /\ loc' = [loc EXCEPT ![t].fails = @ + 1,
                              ![t].reading = FALSE,
                              ![t].log = @ \o <<"reopen", "malloc_failed",
                                                "reclose">>]
     \/ loc' = [loc EXCEPT ![t].reading = FALSE,
                           ![t].outbuffer = "freed",
                           ![t].sink = Append(@, loc[t].archive),
                           ![t].flushed = TRUE,
                           ![t].log = @ \o <<"reopen", "malloc", "read",
                                             "reclose", "write", "flush",
                                             "free">>]
  /\ Goto(t, "ret")
  /\ UNCHANGED <<prefix, files, order, mtx, used, probe>>

\* The call returns to its caller; its locals are gone.
Return(t) ==
  /\ pc[t] = "ret"
  /\ loc' = [loc EXCEPT ![t] = NoLocals]
  /\ Goto(t, "idle")
  /\ UNCHANGED <<prefix, files, order, mtx, used, probe>>

\* ------------------------------------------------------------------------
\* The program
\* ------------------------------------------------------------------------

Next ==
  \E t \in Threads :
    \/ \E n \in Names : GetFileString(t, n)
    \/ \E n \in Names : GetFileCString(t, n)
    \/ GetFileBody(t)
    \/ \E v \in WriteVals : HandleWrite(t, v)
    \/ DropHandle(t)
    \/ OrderedFileNamesCall(t)
    \/ OrderedFileNamesInner(t)
    \/ OrderedFileNamesBody(t)
    \/ AddManifestBody(t)
    \/ WritePlainDirCall(t)
    \/ WritePlainDirBody(t)
    \/ WritePlainStreamCall(t)
    \/ PlainStreamHead(t)
    \/ PlainStreamFile(t)
    \/ WriteZipCall(t)
    \/ ZipInit(t)
    \/ ZipEntry(t)
    \/ ZipClose(t)
    \/ ZipReadBack(t)
    \/ Return(t)

Spec == Init /\ [][Next]_vars

\* A step of a call in progress (not the start of a call, and not what a
\* producer does with the pointer it got).
Progress(t) ==
  \/ GetFileBody(t)
  \/ OrderedFileNamesInner(t)
  \/ OrderedFileNamesBody(t)
  \/ AddManifestBody(t)
  \/ WritePlainDirBody(t)
  \/ PlainStreamHead(t)
  \/ PlainStreamFile(t)
  \/ ZipInit(t)
  \/ ZipEntry(t)
  \/ ZipClose(t)
  \/ ZipReadBack(t)
  \/ Return(t)

\* The program under a fair scheduler, with codec and file system calls
\* that return: a thread that can go on with its call does.
SpecFair == Spec /\ \A t \in Threads : WF_vars(Progress(t))

\* ------------------------------------------------------------------------
\* setFilePermissions and orderedFileNames applied on their own
\* ------------------------------------------------------------------------

MaxNameLen == 4   \* length of the entry names setFilePermissions is given
MaxSortKeys == 2  \* number of keys orderedFileNames is given

\* The payload is not used while a function is applied on its own.
PayloadUnused ==
  /\ prefix = <<>>
  /\ files = <<>>
  /\ order = <<>>
  /\ mtx = "free"
  /\ pc = [t \in Threads |-> "idle"]
  /\ loc = [t \in Threads |-> NoLocals]
  /\ used = 0

payloadVars == <<prefix, files, order, mtx, pc, loc, used>>

\* Entry names: every string of at most MaxNameLen of these characters.
NameChars == {".", "s", "h", "/"}
EntryNames == UNION { [1 .. k -> NameChars] : k \in 0 .. MaxNameLen }

\* Attribute words: every combination of the write bits of group and
\* others, the execute and write bits of the owner (each << 16), the regular
\* file bit (<< 16) and bit 4 (S_IWGRP not shifted).
AttributeBits == {4, 17, 20, 22, 23, 31}
AttributeWords == SUBSET AttributeBits

OriginTags == {ZIP_OPSYS_UNIX, ZIP_OPSYS_DOS}

PermInit ==
  /\ PayloadUnused
  /\ \E n \in EntryNames, o \in OriginTags, w \in AttributeWords :
       probe = [kind |-> "perm", fName |-> n, opsys |-> o, attributes |-> w,
                done |-> FALSE, opsysAfter |-> o, attributesAfter |-> w]

\* setFilePermissions(fileIndex, fName, new_archive) on the entry.
ApplySetFilePermissions ==
  /\ probe.kind = "perm" /\ ~probe.done
  /\ probe' = [probe EXCEPT
                 !.done = TRUE,
                 !.attributesAfter =
                    SetFilePermissions(probe.fName, probe.opsys, probe.attributes)]
  /\ UNCHANGED payloadVars

PermNext == ApplySetFilePermissions

SpecPerm == PermInit /\ [][PermNext]_vars

\* Keys orderedFileNames is given: one path element a prefix of another, a
\* character below and one above the separator, repeated and trailing
\* separators.
SortPool ==
  { <<"a">>, <<"b">>, <<"a", "-">>, <<"a", "/", "b">>, <<"a", "/", "/", "b">>,
    <<"a", "-", "b">>, <<"a", "/">>, <<"a", "b">>, <<"a", "0">>,
    <<"a", "/", "-">>, <<"a", "/", "a", "/", "b">>, <<"a", "/", "a", "-">> }

\* The sequences of at most n distinct keys.
RECURSIVE DistinctSeqs(_)
DistinctSeqs(n) ==
  IF n = 0 THEN { <<>> }
  ELSE LET shorter == DistinctSeqs(n - 1)
       IN  shorter \cup
           { Append(q, k) : q \in {x \in shorter : Len(x) = n - 1},
                            k \in SortPool }

SortInputs ==
  { q \in DistinctSeqs(MaxSortKeys) :
      \A i, j \in 1 .. Len(q) : i # j => q[i] # q[j] }

SortInit ==
  /\ PayloadUnused
  /\ \E q \in SortInputs :
       probe = [kind |-> "sort", iter |-> q, done |-> FALSE, ret |-> <<>>]

\* orderedFileNames on a map that holds the keys of iter and iterates in
\* that order.
ApplyOrderedFileNames ==
  /\ probe.kind = "sort" /\ ~probe.done
  /\ probe' = [probe EXCEPT !.done = TRUE,
                            !.ret = OrderedFileNamesOf(probe.iter)]
  /\ UNCHANGED payloadVars

SortNext == ApplyOrderedFileNames

SpecSort == SortInit /\ [][SortNext]_vars

\* ------------------------------------------------------------------------
\* Properties
\* ------------------------------------------------------------------------

\* The serializations, and whether thread t is inside one: called and not
\* yet at its return.
Serializations == {"writePlainDir", "writePlainStream", "writeZip"}
Serializing(t) == loc[t].op \in Serializations /\ pc[t] \notin {"idle", "ret"}

\* Position of stage s in the log of thread t (0: not reached).
StageAt(t, s) ==
  LET at == {i \in 1 .. Len(loc[t].log) : loc[t].log[i] = s}
  IN  IF at = {} THEN 0 ELSE CHOOSE i \in at : \A j \in at : i <= j

\* The stages whose failure ends writeZip.
FatalStages == {"create_failed", "open_failed", "close_failed", "malloc_failed"}
FatalFailure(t) == \E s \in FatalStages : StageAt(t, s) > 0

\* C1: while a serialization is in progress no getFile of another thread
\* creates a key or completes, and no other serialization begins: a
\* serialization keeps the mutex of the store from its first access to its
\* return.
C1_SerializationExclusive ==
  [][ \A t \in Threads : Serializing(t) =>
        \A u \in Threads \ {t} :
          /\ ~(pc[u] = "gf_body" /\ pc'[u] = "gf_held")
          /\ ~(~Serializing(u) /\ Serializing(u)') ]_vars

\* C2: a writeZip call in which creating the source, opening the archive,
\* closing it or allocating the output buffer failed has written nothing to
\* the sink, has not flushed it, and returns; the sink is written only once
\* the archive was closed and read back, and then holds that archive.
C2_NoPartialOutput ==
  \A t \in Threads : loc[t].op = "writeZip" =>
    /\ FatalFailure(t) =>
          loc[t].sink = <<>> /\ ~loc[t].flushed /\ pc[t] = "ret"
    /\ (loc[t].sink # <<>> \/ loc[t].flushed) =>
          /\ loc[t].za = "closed"
          /\ loc[t].sink = <<loc[t].archive>>
          /\ 0 < StageAt(t, "close")
          /\ StageAt(t, "close") < StageAt(t, "read")
          /\ StageAt(t, "read") < StageAt(t, "write")

\* A writeZip call returns after zip_close failed on an archive that holds
\* entries.
C2_Witness ==
  \E t \in Threads :
    /\ pc[t] = "ret" /\ loc[t].op = "writeZip"
    /\ StageAt(t, "close_failed") > 0
    /\ Len(loc[t].archive) > 0
    /\ loc[t].sink = <<>>

\* The elements of a sequence.
Range(q) == {q[i] : i \in 1 .. Len(q)}

\* The sequences that hold each element of S once: the orders in which a map
\* with the keys S may iterate.
IterationOrders(S) ==
  {q \in [1 .. Cardinality(S) -> S] : Range(q) = S}

\* C3: the vector orderedFileNames returns holds every key once, in
\* ascending byte-wise lexicographic order of the full key string.
C3_ByteWiseOrder ==
  (probe.kind = "sort" /\ probe.done) =>
    /\ Len(probe.ret) = Len(probe.iter)
    /\ Range(probe.ret) = Range(probe.iter)
    /\ \A i, j \in 1 .. Len(probe.ret) :
         i < j => StrLess(probe.ret[i], probe.ret[j])

\* C4: the list of names a call enumerated is the one orderedFileNames
\* returns for every other order in which a map holding the same keys may
\* iterate: the output depends on the keys only, not on the order in which
\* they were inserted.
C4_InsertionOrderIndependent ==
  \A t \in Threads :
    (loc[t].op \in {"orderedFileNames", "writePlainStream", "writeZip"}
       /\ loc[t].names # <<>>) =>
      \A q \in IterationOrders(Range(loc[t].names)) :
        OrderedFileNamesOf(q) = loc[t].names

\* C5: the step in which getFile(name) completes returns the slot of the key
\* prefix + name, adds that key with empty content when it is absent and
\* nothing otherwise, and changes the content of no slot; the map iterates
\* over each key once, and two callers that asked for the same name hold the
\* same slot.
C5_GetOrCreate ==
  /\ [][ \A t \in Threads :
           (pc[t] = "gf_body" /\ pc'[t] = "gf_held") =>
             LET key == prefix \o loc[t].arg
             IN  /\ loc'[t].handle = key
                 /\ DOMAIN files' = Keys \cup {key}
                 /\ \A k \in Keys : files'[k] = files[k]
                 /\ key \notin Keys => files'[key] = <<>> ]_vars
  /\ [](/\ Len(order) = Cardinality(Keys)
        /\ Range(order) = Keys
        /\ \A t, u \in Threads :
             (pc[t] = "gf_held" /\ pc[u] = "gf_held"
                /\ loc[t].arg = loc[u].arg) =>
               (loc[t].handle = loc[u].handle /\ loc[t].handle \in Keys))

\* Two callers hold the slot of the same key, and it has the content one of
\* them wrote.
C5_Witness ==
  /\ pc["t1"] = "gf_held" /\ pc["t2"] = "gf_held"
  /\ loc["t1"].handle = loc["t2"].handle
  /\ loc["t1"].handle \in Keys
  /\ files[loc["t1"].handle] \in WriteVals

\* The names of the entries of an archive, in order.
ArchiveNames(a) == [i \in 1 .. Len(a) |-> a[i].name]

\* Whether the serialization of thread t produced its output, and the keys
\* that appear in it: the entries of the archive written to the sink, the
\* files written under the directory, the names written to the stream.
Produced(t) == loc[t].op = "writeZip" => loc[t].sink # <<>>
Written(t) ==
  CASE loc[t].op = "writeZip" ->
         IF loc[t].sink = <<>> THEN {}
         ELSE Range(ArchiveNames(loc[t].sink[1]))
    [] loc[t].op = "writePlainDir" ->
         {k \in Range(loc[t].names) : PathElems(k) \in DOMAIN loc[t].dir}
    [] OTHER ->
         {k \in Range(loc[t].names) :
            \E i \in 1 .. Len(loc[t].sink) : loc[t].sink[i] = k}

C7_EntriesCarryContent ==
  [][ \A t \in Threads :
        (pc[t] = "zip_close" /\ pc'[t] = "zip_copy" /\ loc[t].fails = 0) =>
          /\ ArchiveNames(loc'[t].archive) = loc[t].names
          /\ manifest_fname \in Range(loc[t].names)
          /\ \A i \in 1 .. Len(loc'[t].archive) :
               loc'[t].archive[i].data = files[loc'[t].archive[i].name] ]_vars

\* The names of the sequence q that are not in the set S, in order.
Without(q, S) == LET Kept(n) == n \notin S IN SelectSeq(q, Kept)

\* C8: in writeZip the entries of the archive are the enumerated names met so
\* far less those whose wrap or add failed, in order; an entry failure does
\* not end the loop (the call returns only with every name attempted); and
\* unless closing, or allocating the buffer, failed as well, the archive is
\* closed and written to the sink.
C8_EntryFailureIsolated ==
  \A t \in Threads :
    (loc[t].op = "writeZip"
       /\ pc[t] \in {"zip_loop", "zip_close", "zip_copy", "ret"}
       /\ loc[t].za # "none") =>
      /\ ArchiveNames(loc[t].archive) =
           Without(SubSeq(loc[t].names, 1, loc[t].idx - 1), loc[t].failed)
      /\ pc[t] # "zip_loop" => loc[t].idx = Len(loc[t].names) + 1
      /\ (pc[t] = "ret" /\ ~FatalFailure(t)) =>
           /\ loc[t].za = "closed"
           /\ loc[t].sink = <<loc[t].archive>>
           /\ loc[t].flushed

\* A writeZip call returns after the first enumerated entry failed: the
\* archive written to the sink holds the entries after it.
C8_Witness ==
  \E t \in Threads :
    /\ pc[t] = "ret" /\ loc[t].op = "writeZip"
    /\ Len(loc[t].names) > 1
    /\ loc[t].failed = {loc[t].names[1]}
    /\ loc[t].sink = <<loc[t].archive>>
    /\ ArchiveNames(loc[t].archive) = Tail(loc[t].names)

\* The compact JSON text of an object with exactly the fields version and
\* contents_path (in either order; neither value needs an escape), followed
\* by one newline.
ExpectedManifests(ver, pfx) ==
  LET cp == <<"\"", "c", "o", "n", "t", "e", "n", "t", "s", "_", "p", "a", "t",
         "h", "\"", ":">>
      vn == <<"\"", "v", "e", "r", "s", "i", "o", "n", "\"", ":">>
      q == <<"\"">>
  IN  { <<"{">> \o cp \o q \o pfx \o q \o <<",">> \o vn \o q \o ver \o q
          \o <<"}", "\n">>,
        <<"{">> \o vn \o q \o ver \o q \o <<",">> \o cp \o q \o pfx \o q
          \o <<"}", "\n">> }

\* C9: writeZip begins with addManifest: the step that ends it is taken with
\* the mutex held, before any other stage of the call, and leaves under the
\* key "manifest/manifest.json" (no prefix) the compact object of version
\* and contents_path = prefix and one newline, whatever the key held
\* before; it adds no other key and changes no other slot.
C9_ManifestSet ==
  /\ [][ \A t \in Threads :
           (pc[t] = "am_body" /\ pc'[t] # "am_body") =>
             /\ mtx = t
             /\ loc[t].op = "writeZip" /\ loc[t].log = <<>>
             /\ loc[t].archive = <<>> /\ loc[t].sink = <<>>
             /\ DOMAIN files' = Keys \cup {manifest_fname}
             /\ files'[manifest_fname] \in ExpectedManifests(QSSC_VERSION, prefix)
             /\ \A k \in Keys \ {manifest_fname} : files'[k] = files[k] ]_vars
  /\ [](\A t \in Threads :
          (loc[t].op = "writeZip" /\ pc[t] # "am_body") =>
            (loc[t].log # <<>> /\ loc[t].log[1] = "manifest"))

\* addManifest has replaced what a producer wrote under the manifest key.
C9_Witness ==
  \E t \in Threads :
    /\ pc[t] = "zip_init" /\ loc[t].op = "writeZip"
    /\ loc[t].before \in WriteVals
    /\ files[manifest_fname] \in ExpectedManifests(QSSC_VERSION, prefix)
    /\ files[manifest_fname] # loc[t].before

\* The file name of an entry name (what follows its last separator), and
\* whether it ends with the extension ".sh": a dot that begins the file name
\* begins no extension.
FileNameOf(n) ==
  LET seps == {i \in 1 .. Len(n) : n[i] = "/"}
      last == IF seps = {} THEN 0 ELSE CHOOSE i \in seps : \A j \in seps : j <= i
  IN  SubSeq(n, last + 1, Len(n))
EndsWithSh(n) ==
  LET f == FileNameOf(n)
  IN  Len(f) > 3 /\ SubSeq(f, Len(f) - 2, Len(f)) = <<".", "s", "h">>

\* C10: for a UNIX-tagged entry and any attribute word, the word
\* setFilePermissions writes back has bit 20 (S_IWGRP << 16) and bit 17
\* (S_IWOTH << 16) clear, has bit 22 (S_IXUSR << 16) set when the file name
\* ends with the extension ".sh" and as it was otherwise, and has every other
\* bit as it was.
C10_PermissionsNormalized ==
  (probe.kind = "perm" /\ probe.done /\ probe.opsys = ZIP_OPSYS_UNIX) =>
    LET a == probe.attributes
        b == probe.attributesAfter
    IN  /\ 20 \notin b
        /\ 17 \notin b
        /\ EndsWithSh(probe.fName) => 22 \in b
        /\ ~EndsWithSh(probe.fName) => (22 \in b <=> 22 \in a)
        /\ \A k \in (0 .. 31) \ {17, 20, 22} : k \in b <=> k \in a

\* setFilePermissions was applied to a UNIX-tagged entry "s.sh" whose word
\* had both write bits and lacked the execute bit.
C10_Witness ==
  /\ probe.kind = "perm" /\ probe.done /\ probe.opsys = ZIP_OPSYS_UNIX
  /\ probe.fName = <<"s", ".", "s", "h">>
  /\ {17, 20} \subseteq probe.attributes
  /\ 22 \notin probe.attributes
  /\ 22 \in probe.attributesAfter
  /\ {17, 20} \cap probe.attributesAfter = {}

\* C11: for an entry whose origin tag is not UNIX, setFilePermissions leaves
\* the attribute word and the tag as they were, whatever the name and the
\* word.
C11_OtherOriginUntouched ==
  (probe.kind = "perm" /\ probe.done /\ probe.opsys # ZIP_OPSYS_UNIX) =>
    /\ probe.attributesAfter = probe.attributes
    /\ probe.opsysAfter = probe.opsys

\* setFilePermissions was applied to an entry "s.sh" that is not tagged UNIX
\* and whose word has both write bits and lacks the execute bit.
C11_Witness ==
  /\ probe.kind = "perm" /\ probe.done /\ probe.opsys = ZIP_OPSYS_DOS
  /\ probe.fName = <<"s", ".", "s", "h">>
  /\ {17, 20} \subseteq probe.attributesAfter
  /\ 22 \notin probe.attributesAfter

\* C12: when writeZip returns, no reference to new_archive_src is held.
C12_SourceReleased ==
  \A t \in Threads :
    (pc[t] = "ret" /\ loc[t].op = "writeZip") => loc[t].srcRefs = 0

\* C13: outside the read-back, outbuffer is not allocated or was freed, and
\* new_archive_src is not open for reading; a writeZip call that reopened the
\* source closed it afterwards, one whose malloc failed has no buffer, and
\* one whose malloc succeeded freed the buffer after the flush.
C13_OutbufferReleased ==
  \A t \in Threads :
    (loc[t].op = "writeZip" /\ pc[t] # "zip_copy") =>
      /\ loc[t].outbuffer \in {"none", "freed"}
      /\ ~loc[t].reading
      /\ StageAt(t, "reopen") > 0 =>
           StageAt(t, "reopen") < StageAt(t, "reclose")
      /\ StageAt(t, "malloc_failed") > 0 => loc[t].outbuffer = "none"
      /\ StageAt(t, "malloc") > 0 =>
           /\ loc[t].outbuffer = "freed"
           /\ StageAt(t, "flush") < StageAt(t, "free")

\* One writeZip call returns after malloc failed and another after it wrote
\* its archive.
C13_Witness ==
  \E t, u \in Threads :
    /\ pc[t] = "ret" /\ StageAt(t, "malloc_failed") > 0
    /\ pc[u] = "ret" /\ StageAt(u, "free") > 0 /\ loc[u].sink # <<>>

\* Thread t takes a step of its call, and the function that call is of.
StepOf(t) == pc'[t] # pc[t] \/ loc'[t].idx # loc[t].idx
OpOf(t) == IF pc[t] = "idle" THEN loc'[t].op ELSE loc[t].op

\* C14: no step of writePlain (to a directory or to a stream) changes the
\* key set or the content of a slot; a step of writeZip adds no key but
\* "manifest/manifest.json" and changes the content of no other slot.
C14_StoreUnchanged ==
  [][ \A t \in Threads : StepOf(t) =>
        /\ OpOf(t) \in {"writePlainDir", "writePlainStream"} =>
             files' = files
        /\ OpOf(t) = "writeZip" =>
             /\ DOMAIN files' \subseteq Keys \cup {manifest_fname}
             /\ \A k \in Keys \ {manifest_fname} : files'[k] = files[k] ]_vars

\* A writeZip call and a dump have run on a store that holds what a producer
\* wrote under a key of its own.
C14_Witness ==
  \E t \in Threads :
    /\ pc[t] = "ret" /\ loc[t].op \in {"writeZip", "writePlainStream"}
    /\ loc[t].sink # <<>>
    /\ \E k \in Range(loc[t].names) \ {manifest_fname} : files[k] \in WriteVals

\* C15: each iteration of the second loop of writePlain(stream) writes
\* "File: ", the name, a newline, the content of the slot, a newline exactly
\* when the content does not end in one (an empty content does not), and
\* the rule.
C15_TrailingNewline ==
  [][ \A t \in Threads :
        (pc[t] = "ps_loop" /\ loc'[t].idx = loc[t].idx + 1) =>
          LET fName == loc[t].names[loc[t].idx]
              d == files[fName]
              ends == d # <<>> /\ d[Len(d)] = "\n"
          IN  loc'[t].sink =
                loc[t].sink \o <<<<"File: ">>, fName, <<"\n">>, d>>
                  \o (IF ends THEN <<>> ELSE <<<<"\n">>>>)
                  \o <<<<"------------------------------------------\n">>>> ]_vars

\* C16: a call of writePlain to a directory does not end by an exception,
\* and the files it wrote are those of the keys whose own creation or
\* opening did not fail.
C16_DirectoryFailureIsolated ==
  \A t \in Threads :
    (pc[t] = "ret" /\ loc[t].op = "writePlainDir") =>
      /\ ~loc[t].thrown
      /\ DOMAIN loc[t].dir =
           {PathElems(k) : k \in Range(loc[t].names) \ loc[t].failed}

\* C17: what writeZip returns tells whether a fatal stage failed: failure
\* when one did, success otherwise.
C17_OutcomeReported ==
  \A t \in Threads :
    (pc[t] = "ret" /\ loc[t].op = "writeZip") =>
      loc[t].result = (IF FatalFailure(t) THEN "failure" ELSE "success")

\* The stages of a writeZip call in which nothing fails, in order (the
\* additions of the entries lie between "open" and "close"), and the log of
\* thread t without the additions.
StagesInOrder ==
  <<"manifest", "create", "keep", "open", "close", "reopen", "malloc", "read",
    "reclose", "write", "flush", "free">>
StagesReached(t) ==
  LET NotAdd(s) == s # "add" IN SelectSeq(loc[t].log, NotAdd)

\* The logs of a call that went through the first n stages, and of one that
\* went through them and then failed in stage n + 1: nothing follows the
\* failure but, after a failed malloc, the close of the reopened source.
StagesCutAt(n) ==
  LET done == SubSeq(StagesInOrder, 1, n)
      next == IF n < Len(StagesInOrder) THEN StagesInOrder[n + 1] ELSE "none"
  IN  {done} \cup
      (CASE next = "create" -> {Append(done, "create_failed")}
         [] next = "open" -> {Append(done, "open_failed")}
         [] next = "close" -> {Append(done, "close_failed")}
         [] next = "malloc" -> {done \o <<"malloc_failed", "reclose">>}
         [] OTHER -> {})

\* C18: the stages a writeZip call has reached are an initial part of
\* manifest, create, keep, open, close, reopen, malloc, read, reclose,
\* write, flush, free, ended by the failure of the next stage if one failed;
\* entries are added only after the open and before the close; after a
\* failed create or open the archive has no entry; after a failed close
\* nothing was read back or written; and from the first stage on the
\* manifest key is in the store.
C18_StagesInOrder ==
  \A t \in Threads : loc[t].op = "writeZip" =>
    /\ \E n \in 0 .. Len(StagesInOrder) : StagesReached(t) \in StagesCutAt(n)
    /\ \A i \in 1 .. Len(loc[t].log) : loc[t].log[i] = "add" =>
         /\ 0 < StageAt(t, "open") /\ StageAt(t, "open") < i
         /\ StageAt(t, "close") > 0 => i < StageAt(t, "close")
         /\ StageAt(t, "close_failed") > 0 => i < StageAt(t, "close_failed")
    /\ Len(loc[t].archive) > 0 => StageAt(t, "open") > 0
    /\ (StageAt(t, "create_failed") > 0 \/ StageAt(t, "open_failed") > 0) =>
         (loc[t].archive = <<>> /\ loc[t].names = <<>>)
    /\ StageAt(t, "close_failed") > 0 =>
         (StageAt(t, "reopen") = 0 /\ loc[t].sink = <<>>)
    /\ loc[t].log # <<>> => manifest_fname \in Keys

\* A writeZip call returns after every stage, an entry added; another
\* returns after zip_open_from_source failed.
C18_Witness ==
  \E t, u \in Threads :
    /\ pc[t] = "ret" /\ StagesReached(t) = StagesInOrder
    /\ StageAt(t, "add") > 0
    /\ pc[u] = "ret" /\ StageAt(u, "open_failed") > 0

\* Where a thread holds _mtx, and where it is in no call.
Locked == {"gf_body", "ofn_body", "am_body", "pd_body"}
AtRest == {"idle", "gf_held"}

\* C19: a thread holds the mutex exactly inside getFile, orderedFileNames,
\* addManifest and writePlain to a directory, so it never waits for the
\* mutex while holding it and holds it at no exit; the mutex is taken only
\* when free; and under fair scheduling every call in progress returns, its
\* thread not holding the mutex.
C19_NoDeadlock ==
  /\ [](\A t \in Threads : mtx = t <=> pc[t] \in Locked)
  /\ [][ \A t \in Threads : (mtx' = t /\ mtx # t) => mtx = "free" ]_vars
  /\ \A t \in Threads :
       (pc[t] \notin AtRest) ~> (pc[t] \in AtRest /\ mtx # t)

\* A writeZip call waits for the mutex, to enumerate the store, while
\* another thread holds it.
C19_Witness ==
  \E t \in Threads :
    /\ pc[t] = "ofn_lock"
    /\ mtx \in Threads \ {t}

\* C20: every data source the entry loop of writeZip creates is, when the
\* iteration ends, owned by the archive or released: no call of writeZip
\* ever holds a file_src that is allocated and owned by nobody.
C20_EntrySourceOwned ==
  \A t \in Threads : loc[t].op = "writeZip" => loc[t].fileSrcs = 0

====
